---- MODULE Spec2Model ----
(***************************************************************************)
(* Model of API_AI_Design.py: the value types BoundingBox, RobotPose and   *)
(* AI_Service_Status, and the four mock service interfaces ASR_API,        *)
(* TTS_API, CV_API and Navigation_API.                                     *)
(*                                                                         *)
(* A caller holds one instance of each service and issues calls in any     *)
(* order.  The state is                                                    *)
(*   instances : the attribute dictionary (__dict__) of each instance,     *)
(*   stdout    : the lines the methods print,                              *)
(*   trace     : what the caller observed, one record per finished call    *)
(*               (service, method, arguments, outcome),                    *)
(* and, for the BoundingBox round trip, box / boxDict / rebuilt / boxPc.   *)
(*                                                                         *)
(* Python values: None is the empty tuple and any other value v of an      *)
(* Optional is <<v>>; bytes and lists are sequences; a dict is the         *)
(* sequence of its <<key, value>> items in insertion order; floats are     *)
(* integers counting hundredths (1.0 is 100), which is what the ':.2f'     *)
(* formats print.                                                          *)
(***************************************************************************)
EXTENDS Integers, Sequences, FiniteSets, TLC

VARIABLES instances, stdout, trace, box, boxDict, rebuilt, boxPc

vars == <<instances, stdout, trace, box, boxDict, rebuilt, boxPc>>

svcVars == <<instances, stdout, trace>>

boxVars == <<box, boxDict, rebuilt, boxPc>>

\* Longest sequence of calls the caller issues.
MaxCalls == 3

\* Largest pixel coordinate of a BoundingBox drawn as input.
MaxCoord == 2

Coord == (0 - 1) .. MaxCoord

None == <<>>

Some(v) == <<v>>

Services == {"ASR", "TTS", "CV", "Navigation"}

----------------------------------------------------------------------------
(* Outcomes of a call *)

Return(v) == [kind |-> "return", val |-> Some(v), exc |-> ""]

ReturnNone == [kind |-> "return", val |-> None, exc |-> ""]

Raise(e) == [kind |-> "raise", val |-> None, exc |-> e]

\* What a method does: its outcome and the lines it printed before it.
Effect(outcome, lines) == [ret |-> outcome, printed |-> lines]

----------------------------------------------------------------------------
(* Value types *)

BoundingBox(x_min, y_min, x_max, y_max) ==
    [x_min |-> x_min, y_min |-> y_min, x_max |-> x_max, y_max |-> y_max]

BoundingBox_to_dict_Swapped(self) ==
    << <<"x_min", self.x_min>>, <<"y_min", self.x_max>>,
       <<"x_max", self.y_min>>, <<"y_max", self.y_max>> >>

BoundingBox_to_dict(self) ==
    << <<"x_min", self.x_min>>, <<"y_min", self.y_min>>,
       <<"x_max", self.x_max>>, <<"y_max", self.y_max>> >>

\* d[key] of a dict.
DictGet(d, key) ==
    LET i == CHOOSE k \in 1..Len(d) : d[k][1] = key IN d[i][2]

DictKeys(d) == [k \in 1..Len(d) |-> d[k][1]]

\* BoundingBox(d["x_min"], d["y_min"], d["x_max"], d["y_max"])
BoundingBox_from_dict(d) ==
    BoundingBox(DictGet(d, "x_min"), DictGet(d, "y_min"),
                DictGet(d, "x_max"), DictGet(d, "y_max"))

RobotPose(x, y, theta) == [x |-> x, y |-> y, theta |-> theta]

RobotPose_to_dict(self) ==
    << <<"x", self.x>>, <<"y", self.y>>, <<"theta", self.theta>> >>

AI_Service_Status(service_name, is_ready, error_message) ==
    [service_name |-> service_name, is_ready |-> is_ready,
     error_message |-> error_message]

AI_Service_Status_to_dict(self) ==
    << <<"service_name", self.service_name>>, <<"is_ready", self.is_ready>>,
       <<"error_message", self.error_message>> >>

----------------------------------------------------------------------------
(* Arguments the caller draws from *)

\* bytes objects: empty audio and a short buffer.
AudioInputs == { <<>>, <<82, 73>> }

LangCodes == {"ar-SA", "en-US"}

TextInputs == {"", "Hello"}

VoiceIds == {"default_female"}

NdArray(shape) == [type |-> "ndarray", shape |-> shape]

NotAnArray == [type |-> "NoneType", shape |-> <<>>]

\* A zero-sized frame, a well-formed frame, and an object that is no array.
ImageInputs == { NdArray(<<0, 0, 3>>), NdArray(<<2, 2, 3>>), NotAnArray }

ObjectLists == { None, Some(<<"cup">>) }

PoseInputs == { RobotPose(100, 100, 0), RobotPose(0 - 50, 225, 157) }

IsZeroSized(img) ==
    /\ img.type = "ndarray"
    /\ \E k \in 1..Len(img.shape) : img.shape[k] = 0

IsMalformed(img) == img.type # "ndarray"

----------------------------------------------------------------------------
(* ASR_API *)

recognize_speech(audio_data, lang_code) ==
    Effect(Return("Dummy Recognized Text"),
           << <<"[ASR_API]: Method 'recognize_speech' called with dummy audio data (",
                Len(audio_data), " bytes).">> >>)

ASR_get_status ==
    Effect(Return(AI_Service_Status("ASR Service", TRUE, None)),
           << <<"[ASR_API]: Method 'get_status' called.">> >>)

(* TTS_API *)

synthesize_speech(text, lang_code, voice_id) ==
    Effect(Return("dummy_audio_bytes"),
           << <<"[TTS_API]: Method 'synthesize_speech' called for text: '",
                text, "'.">> >>)

TTS_get_status ==
    Effect(Return(AI_Service_Status("TTS Service", TRUE, None)),
           << <<"[TTS_API]: Method 'get_status' called.">> >>)

(* CV_API *)

\* image_frame.shape is read while the line is formatted: an object without
\* a shape raises AttributeError before anything is printed.
detect_faces(image_frame) ==
    IF image_frame.type # "ndarray"
    THEN Effect(Raise("AttributeError"), <<>>)
    ELSE Effect(Return(<< << <<"bbox", BoundingBox_to_dict(BoundingBox(0, 0, 10, 10))>>,
                             <<"confidence", 0>>, <<"id", "dummy">> >> >>),
                << <<"[CV_API]: Method 'detect_faces' called with dummy image (shape: ",
                     image_frame.shape, ").">> >>)

recognize_object(image_frame, object_list) ==
    IF image_frame.type # "ndarray"
    THEN Effect(Raise("AttributeError"), <<>>)
    ELSE Effect(Return(<<>>),
                << <<"[CV_API]: Method 'recognize_object' called with dummy image (shape: ",
                     image_frame.shape, ", looking for: ", object_list, ").">> >>)

CV_get_status_WithMessage ==
    Effect(Return(AI_Service_Status("CV Service", TRUE, Some("ok"))),
           << <<"[CV_API]: Method 'get_status' called.">> >>)

CV_get_status ==
    Effect(Return(AI_Service_Status("CV Service", TRUE, None)),
           << <<"[CV_API]: Method 'get_status' called.">> >>)

(* Navigation_API *)

get_current_pose ==
    Effect(Return(RobotPose(0, 0, 0)),
           << <<"[Navigation_API]: Method 'get_current_pose' called.">> >>)

set_goal_pose(target_pose) ==
    Effect(Return(TRUE),
           << <<"[Navigation_API]: Method 'set_goal_pose' called for dummy target X=",
                target_pose.x, ", Y=", target_pose.y, ".">> >>)

cancel_navigation ==
    Effect(Return(TRUE),
           << <<"[Navigation_API]: Method 'cancel_navigation' called.">> >>)

\* np.array([[0]], dtype=np.int8)
get_map_data ==
    Effect(Return(<< <<0>> >>),
           << <<"[Navigation_API]: Method 'get_map_data' called.">> >>)

Navigation_get_status ==
    Effect(Return(AI_Service_Status("Navigation Service", TRUE, None)),
           << <<"[Navigation_API]: Method 'get_status' called.">> >>)

----------------------------------------------------------------------------
(* The caller *)

\* ASR_API(), TTS_API(), CV_API(), Navigation_API(): no __init__, no attributes.
NewInstances == [s \in Services |-> {}]

Entry(svc, op, args, ret) == [svc |-> svc, op |-> op, args |-> args, ret |-> ret]

\* The caller may still issue a call.
CanCall == Len(trace) < MaxCalls

\* One finished call of a method that assigns nothing to self.
Observe(svc, op, args, eff) ==
    /\ trace' = Append(trace, Entry(svc, op, args, eff.ret))
    /\ stdout' = stdout \o eff.printed
    /\ UNCHANGED instances
    /\ UNCHANGED boxVars

Init ==
    /\ instances = NewInstances
    /\ stdout = <<>>
    /\ trace = <<>>
    /\ box = BoundingBox(0, 0, 0, 0)
    /\ boxDict = <<>>
    /\ rebuilt = BoundingBox(0, 0, 0, 0)
    /\ boxPc = "idle"

Call_recognize_speech ==
    /\ CanCall
    /\ \E a \in AudioInputs, l \in LangCodes :
           Observe("ASR", "recognize_speech", <<a, l>>, recognize_speech(a, l))

Call_ASR_get_status ==
    /\ CanCall
    /\ Observe("ASR", "get_status", <<>>, ASR_get_status)

Call_synthesize_speech ==
    /\ CanCall
    /\ \E t \in TextInputs, l \in LangCodes, v \in VoiceIds :
           Observe("TTS", "synthesize_speech", <<t, l, v>>, synthesize_speech(t, l, v))

Call_TTS_get_status ==
    /\ CanCall
    /\ Observe("TTS", "get_status", <<>>, TTS_get_status)

Call_detect_faces ==
    /\ CanCall
    /\ \E img \in ImageInputs :
           Observe("CV", "detect_faces", <<img>>, detect_faces(img))

Call_recognize_object ==
    /\ CanCall
    /\ \E img \in ImageInputs, ol \in ObjectLists :
           Observe("CV", "recognize_object", <<img, ol>>, recognize_object(img, ol))

Call_CV_get_status ==
    /\ CanCall
    /\ Observe("CV", "get_status", <<>>, CV_get_status)

\* The most recent goal command of the trace: "none", "set_goal_pose" or
\* "cancel_navigation".
RECURSIVE LastGoalCommand(_)
LastGoalCommand(tr) ==
    IF tr = <<>> THEN "none"
    ELSE LET e == tr[Len(tr)] IN
         IF e.svc = "Navigation" /\ e.op \in {"set_goal_pose", "cancel_navigation"}
         THEN e.op
         ELSE LastGoalCommand(SubSeq(tr, 1, Len(tr) - 1))

\* The target of the most recent set_goal_pose of the trace, None if none.
RECURSIVE LastGoal(_)
LastGoal(tr) ==
    IF tr = <<>> THEN None
    ELSE LET e == tr[Len(tr)] IN
         IF e.svc = "Navigation" /\ e.op = "set_goal_pose"
         THEN Some(e.args[1])
         ELSE LastGoal(SubSeq(tr, 1, Len(tr) - 1))

Call_get_current_pose_Tracking ==
    /\ CanCall
    /\ Observe("Navigation", "get_current_pose", <<>>,
               IF LastGoal(trace) = None THEN get_current_pose
               ELSE Effect(Return(LastGoal(trace)[1]), get_current_pose.printed))

Call_get_current_pose ==
    /\ CanCall
    /\ Observe("Navigation", "get_current_pose", <<>>, get_current_pose)

Call_set_goal_pose_RejectWhileNavigating ==
    /\ CanCall
    /\ \E p \in PoseInputs :
           Observe("Navigation", "set_goal_pose", <<p>>,
                   IF LastGoalCommand(trace) = "set_goal_pose"
                   THEN Effect(Return(FALSE), set_goal_pose(p).printed)
                   ELSE set_goal_pose(p))

Call_set_goal_pose ==
    /\ CanCall
    /\ \E p \in PoseInputs :
           Observe("Navigation", "set_goal_pose", <<p>>, set_goal_pose(p))

Call_cancel_navigation_NothingToCancel ==
    /\ CanCall
    /\ Observe("Navigation", "cancel_navigation", <<>>,
               IF LastGoalCommand(trace) = "set_goal_pose"
               THEN cancel_navigation
               ELSE Effect(Return(FALSE), cancel_navigation.printed))

Call_cancel_navigation ==
    /\ CanCall
    /\ Observe("Navigation", "cancel_navigation", <<>>, cancel_navigation)

Call_get_map_data ==
    /\ CanCall
    /\ Observe("Navigation", "get_map_data", <<>>, get_map_data)

\* A status check that initialises the service on first use.
Call_Navigation_get_status_LazyInit ==
    /\ CanCall
    /\ trace' = Append(trace,
           Entry("Navigation", "get_status", <<>>,
                 Return(AI_Service_Status("Navigation Service",
                                          <<"loaded", TRUE>> \in instances["Navigation"],
                                          None))))
    /\ stdout' = stdout \o Navigation_get_status.printed
    /\ instances' = [instances EXCEPT !["Navigation"] = @ \cup {<<"loaded", TRUE>>}]
    /\ UNCHANGED boxVars

Call_Navigation_get_status ==
    /\ CanCall
    /\ Observe("Navigation", "get_status", <<>>, Navigation_get_status)

Next ==
    \/ Call_recognize_speech
    \/ Call_ASR_get_status
    \/ Call_synthesize_speech
    \/ Call_TTS_get_status
    \/ Call_detect_faces
    \/ Call_recognize_object
    \/ Call_CV_get_status
    \/ Call_get_current_pose
    \/ Call_set_goal_pose
    \/ Call_cancel_navigation
    \/ Call_get_map_data
    \/ Call_Navigation_get_status

Spec == Init /\ [][Next]_vars

----------------------------------------------------------------------------
(* BoundingBox serialisation round trip *)

InitBox ==
    /\ instances = NewInstances
    /\ stdout = <<>>
    /\ trace = <<>>
    /\ \E a \in Coord, b \in Coord, c \in Coord, d \in Coord :
           box = BoundingBox(a, b, c, d)
    /\ boxDict = <<>>
    /\ rebuilt = BoundingBox(0, 0, 0, 0)
    /\ boxPc = "constructed"

Box_to_dict ==
    /\ boxPc = "constructed"
    /\ boxDict' = BoundingBox_to_dict(box)
    /\ boxPc' = "serialized"
    /\ UNCHANGED <<box, rebuilt>>
    /\ UNCHANGED svcVars

Box_from_dict ==
    /\ boxPc = "serialized"
    /\ rebuilt' = BoundingBox_from_dict(boxDict)
    /\ boxPc' = "rebuilt"
    /\ UNCHANGED <<box, boxDict>>
    /\ UNCHANGED svcVars

NextBox == Box_to_dict \/ Box_from_dict

SpecBox == InitBox /\ [][NextBox]_vars

----------------------------------------------------------------------------
(* Reading the trace *)

Calls == 1 .. Len(trace)

IsCall(i, svc, op) == trace[i].svc = svc /\ trace[i].op = op

IsStatusCall(i) == trace[i].op = "get_status"

Returned(i) == trace[i].ret.kind = "return" /\ trace[i].ret.val # None

\* The object a call returned.
Result(i) == trace[i].ret.val[1]

Before(i) == SubSeq(trace, 1, i - 1)

\* The state of the navigation goal state machine of the specification
\* after the calls of tr: IDLE until a goal is accepted, NAVIGATING after an
\* accepted set_goal_pose, CANCELLED after a cancel_navigation that had a
\* goal to cancel.
RECURSIVE GoalState(_)
GoalState(tr) ==
    IF tr = <<>> THEN "IDLE"
    ELSE LET e == tr[Len(tr)]
             prev == GoalState(SubSeq(tr, 1, Len(tr) - 1))
         IN  IF e.svc # "Navigation" THEN prev
             ELSE IF e.op = "set_goal_pose" /\ e.ret = Return(TRUE) THEN "NAVIGATING"
             ELSE IF e.op = "cancel_navigation" /\ prev = "NAVIGATING" THEN "CANCELLED"
             ELSE prev

----------------------------------------------------------------------------
(* Claims *)

\* C1: the navigation goal state (IDLE, then NAVIGATING after an accepted
\* set_goal_pose, CANCELLED after a following cancel_navigation, NAVIGATING
\* again after the next accepted set_goal_pose) is observable through
\* get_status: two status queries made in different goal states return
\* different statuses.
C1_GoalStateObservable ==
    \A i \in Calls, j \in Calls :
        ( /\ IsCall(i, "Navigation", "get_status")
          /\ IsCall(j, "Navigation", "get_status")
          /\ GoalState(Before(i)) # GoalState(Before(j)) )
        => trace[i].ret # trace[j].ret

\* C2 (state part): two consecutive get_status calls on the same service
\* return statuses equal in service_name, is_ready and error_message.
C2_ConsecutiveStatusEqual ==
    \A i \in Calls :
        ( /\ i + 1 \in Calls
          /\ IsStatusCall(i)
          /\ IsStatusCall(i + 1)
          /\ trace[i].svc = trace[i + 1].svc )
        => /\ Returned(i)
           /\ Returned(i + 1)
           /\ Result(i).service_name = Result(i + 1).service_name
           /\ Result(i).is_ready = Result(i + 1).is_ready
           /\ Result(i).error_message = Result(i + 1).error_message

\* C2 (step part): a step that is a get_status call changes no attribute of
\* any service instance.
C2_StatusCallKeepsState ==
    ( /\ Len(trace') = Len(trace) + 1
      /\ trace'[Len(trace')].op = "get_status" )
    => instances' = instances

\* C2: get_status is idempotent for each of the four services: consecutive
\* calls on one instance return field-by-field equal statuses, and the call
\* changes no service state.
C2_StatusIdempotent ==
    /\ []C2_ConsecutiveStatusEqual
    /\ [][C2_StatusCallKeepsState]_vars

C2_Witness ==
    \E i \in Calls :
        /\ i - 1 \in Calls
        /\ i + 1 \in Calls
        /\ trace[i - 1].svc = trace[i].svc
        /\ ~IsStatusCall(i - 1)
        /\ IsStatusCall(i)
        /\ IsStatusCall(i + 1)
        /\ trace[i].svc = trace[i + 1].svc
        /\ Returned(i)
        /\ Result(i) = Result(i + 1)

\* C3: cancel_navigation returns true in every navigation state, also when
\* no goal was ever set or the goal was already cancelled; it never returns
\* false and never raises.
C3_CancelAlwaysTrue ==
    \A i \in Calls :
        IsCall(i, "Navigation", "cancel_navigation") => trace[i].ret = Return(TRUE)

C3_Witness ==
    /\ \E i \in Calls :
           /\ IsCall(i, "Navigation", "cancel_navigation")
           /\ LastGoalCommand(Before(i)) = "none"
    /\ \E i \in Calls :
           /\ IsCall(i, "Navigation", "cancel_navigation")
           /\ LastGoalCommand(Before(i)) = "cancel_navigation"

\* C4: every status returned by get_status of any service has an
\* error_message only if is_ready is false.
C4_MessageOnlyWhenNotReady ==
    \A i \in Calls :
        IsStatusCall(i) =>
            /\ Returned(i)
            /\ (Result(i).is_ready => Result(i).error_message = None)

C4_Witness ==
    \E i \in Calls, j \in Calls :
        /\ j < i
        /\ IsCall(i, "CV", "get_status")
        /\ ~IsStatusCall(j)
        /\ Result(i).is_ready

\* C5: for a zero-sized or malformed image buffer detect_faces and
\* recognize_object end in an error outcome, never in a normally returned
\* detection sequence.
C5_InvalidImageIsAnError ==
    \A i \in Calls :
        ( /\ trace[i].svc = "CV"
          /\ trace[i].op \in {"detect_faces", "recognize_object"}
          /\ (IsZeroSized(trace[i].args[1]) \/ IsMalformed(trace[i].args[1])) )
        => trace[i].ret.kind # "return"

\* C6: recognize_speech on empty audio with language "ar-SA" returns None
\* and does not raise.
C6_EmptyAudioGivesNone ==
    \A i \in Calls :
        ( /\ IsCall(i, "ASR", "recognize_speech")
          /\ trace[i].args = << <<>>, "ar-SA" >> )
        => trace[i].ret = ReturnNone

\* C8 (state part): for a box with x_min <= x_max and y_min <= y_max, the
\* box rebuilt from the four named fields of to_dict has exactly the
\* original's x_min, y_min, x_max and y_max.
C8_RoundTripPreserves ==
    ( /\ boxPc = "rebuilt"
      /\ box.x_min <= box.x_max
      /\ box.y_min <= box.y_max )
    => /\ DictKeys(boxDict) = <<"x_min", "y_min", "x_max", "y_max">>
       /\ rebuilt.x_min = box.x_min
       /\ rebuilt.y_min = box.y_min
       /\ rebuilt.x_max = box.x_max
       /\ rebuilt.y_max = box.y_max

\* C8: the BoundingBox round trip through to_dict preserves all four fields
\* of a well-ordered box, and no step of it changes the original box.
C8_BoundingBoxRoundTrip ==
    /\ []C8_RoundTripPreserves
    /\ [][box' = box]_vars

C8_Witness ==
    /\ boxPc = "rebuilt"
    /\ box.x_min < box.x_max
    /\ box.y_min < box.y_max
    /\ box.x_max # box.y_min
    /\ rebuilt = box

\* C9: set_goal_pose returns true for every target pose in every navigation
\* state, also while an earlier accepted goal is neither cancelled nor
\* completed, and it stores no goal for later.
C9_SetGoalAlwaysAccepted ==
    /\ instances["Navigation"] = {}
    /\ \A i \in Calls :
           IsCall(i, "Navigation", "set_goal_pose") => trace[i].ret = Return(TRUE)

C9_Witness ==
    \E i \in Calls :
        /\ IsCall(i, "Navigation", "set_goal_pose")
        /\ LastGoalCommand(Before(i)) = "set_goal_pose"
        /\ GoalState(Before(i)) = "NAVIGATING"
        /\ trace[i].args # trace[i - 1].args

\* C10: the services are stateless: no instance ever holds an attribute,
\* equal calls return equal results whatever was called in between, and after
\* any set_goal_pose and cancel_navigation calls get_current_pose returns the
\* pose (0.0, 0.0, 0.0), get_map_data the grid [[0]] and every get_status
\* reports is_ready = true.
C10_Stateless ==
    /\ instances = NewInstances
    /\ \A i \in Calls :
           /\ IsCall(i, "Navigation", "get_current_pose")
                  => trace[i].ret = Return(RobotPose(0, 0, 0))
           /\ IsCall(i, "Navigation", "get_map_data")
                  => trace[i].ret = Return(<< <<0>> >>)
           /\ IsStatusCall(i) => (Returned(i) /\ Result(i).is_ready)
    /\ \A i \in Calls, j \in Calls :
           ( /\ trace[i].svc = trace[j].svc
             /\ trace[i].op = trace[j].op
             /\ trace[i].args = trace[j].args )
           => trace[i].ret = trace[j].ret

C10_Witness ==
    \E i \in Calls, j \in Calls, k \in Calls :
        /\ i < j
        /\ j < k
        /\ IsCall(i, "Navigation", "set_goal_pose")
        /\ IsCall(j, "Navigation", "cancel_navigation")
        /\ IsCall(k, "Navigation", "get_current_pose")

====
